---------------------------- MODULE Spec2Model ----------------------------
(***************************************************************************)
(* A model of the PII detector of src/binary.py: the recognizers of the    *)
(* pattern library, the standalone and the combinatorial classifier, the   *)
(* masking engine, process_record, and the row loop of main.               *)
(*                                                                         *)
(* A Python str is a sequence of one-character strings, so that slicing,   *)
(* len() and the regular expressions are computed on the characters.  A    *)
(* field name is an atom (a TLA+ string): the code only compares names.    *)
(* A record (a dict) is a sequence of <<name, value>> pairs with distinct  *)
(* names, in insertion order.                                              *)
(***************************************************************************)
EXTENDS Integers, Sequences, FiniteSets

\* ------------------------------------------------------------ characters

Digit == {"0", "1", "2", "3", "4", "5", "6", "7", "8", "9"}

Upper == {"A", "B", "C", "D", "E", "F", "G", "H", "I", "J", "K", "L", "M",
          "N", "O", "P", "Q", "R", "S", "T", "U", "V", "W", "X", "Y", "Z"}

Lower == {"a", "b", "c", "d", "e", "f", "g", "h", "i", "j", "k", "l", "m",
          "n", "o", "p", "q", "r", "s", "t", "u", "v", "w", "x", "y", "z"}

Alpha == Upper \cup Lower

\* \w of the re module, on the ASCII characters the model draws from
Word == Alpha \cup Digit \cup {"_"}

\* the whitespace str.split() splits on
Whitespace == {" ", "\n", "\t"}

\* Python's None
None == <<"<None>">>

Min(a, b) == IF a < b THEN a ELSE b

Max(a, b) == IF a > b THEN a ELSE b

\* s[:n]
Prefix(s, n) == SubSeq(s, 1, Min(n, Len(s)))

\* s[-n:], n > 0
Suffix(s, n) == SubSeq(s, Max(1, Len(s) - n + 1), Len(s))

\* 'X' * n
Xs(n) == [i \in 1..n |-> "X"]

\* every character of s[a..b] is in class C
AllIn(s, a, b, C) == \A i \in a..b : s[i] \in C

\* the literal h stands in s from position p on
HasAt(s, p, h) == /\ p + Len(h) - 1 <= Len(s)
                  /\ \A j \in 1..Len(h) : s[p + j - 1] = h[j]

\* \b after position n, where s[n] is a word character
WordEnd(s, n) == n = Len(s) \/ s[n + 1] \notin Word

\* \b before position n, where s[n] is a word character
WordStart(s, n) == n = 1 \/ s[n - 1] \notin Word

\* --------------------------------------------------------- pattern library

\* the alternation of upi_pattern
UpiHandles == { <<"p", "a", "y", "t", "m">>,
                <<"y", "b", "l">>,
                <<"o", "k", "a", "x", "i", "s">>,
                <<"a", "x", "i", "s", "b", "a", "n", "k">>,
                <<"h", "d", "f", "c", "b", "a", "n", "k">>,
                <<"i", "c", "i", "c", "i">>,
                <<"s", "b", "i">>,
                <<"k", "o", "t", "a", "k">>,
                <<"p", "h", "o", "n", "e", "p", "e">>,
                <<"i", "b", "l">>,
                <<"u", "n", "i", "o", "n", "b", "a", "n", "k">>,
                <<"c", "a", "n", "a", "r", "a">>,
                <<"p", "n", "b">>,
                <<"a", "n", "d", "h", "r", "a">>,
                <<"f", "e", "d", "e", "r", "a", "l">>,
                <<"k", "a", "r", "n", "a", "t", "a", "k", "a">>,
                <<"p", "u", "n", "j", "a", "b">>,
                <<"m", "a", "h", "a", "r", "a", "s", "h", "t", "r", "a">>,
                <<"a", "x", "i", "s">>,
                <<"i", "n", "d", "i", "a", "n", "b", "a", "n", "k">>,
                <<"y", "e", "s", "b", "a", "n", "k">> }

\* [A-Za-z0-9._%+-]
EmailLocal == Alpha \cup Digit \cup {".", "_", "%", "+", "-"}

\* [A-Za-z0-9.-]
EmailDomain == Alpha \cup Digit \cup {".", "-"}

\* phone_pattern.match(s): \b[6-9]\d{9}\b from the start of s
is_phone_number(s) ==
    /\ Len(s) >= 10
    /\ s[1] \in {"6", "7", "8", "9"}
    /\ AllIn(s, 2, 10, Digit)
    /\ WordEnd(s, 10)

\* aadhar_pattern.match(s): \b\d{12}\b from the start of s
is_aadhar(s) ==
    /\ Len(s) >= 12
    /\ AllIn(s, 1, 12, Digit)
    /\ WordEnd(s, 12)

\* passport_pattern.match(s): \b[A-Z]\d{7}\b from the start of s
is_passport(s) ==
    /\ Len(s) >= 8
    /\ s[1] \in Upper
    /\ AllIn(s, 2, 8, Digit)
    /\ WordEnd(s, 8)

\* upi_pattern.match(s): \b[\w\d]+@(paytm|ybl|...)\b from the start of s
is_upi_id(s) ==
    \E n \in 1..(Len(s) - 1) :
        /\ AllIn(s, 1, n, Word)
        /\ s[n + 1] = "@"
        /\ \E h \in UpiHandles : HasAt(s, n + 2, h) /\ WordEnd(s, n + 1 + Len(h))

\* email_pattern.match(s):
\* \b[A-Za-z0-9._%+-]+@[A-Za-z0-9.-]+\.[A-Za-z]{2,}\b from the start of s;
\* the local part is s[1..n], the domain s[n+2..d], the extension s[d+2..e]
is_email(s) ==
    \E n \in 1..(Len(s) - 1) :
        /\ s[1] \in Word
        /\ AllIn(s, 1, n, EmailLocal)
        /\ s[n + 1] = "@"
        /\ \E d \in (n + 2)..(Len(s) - 1) :
              /\ AllIn(s, n + 2, d, EmailDomain)
              /\ s[d + 1] = "."
              /\ \E e \in (d + 3)..Len(s) :
                    AllIn(s, d + 2, e, Alpha) /\ WordEnd(s, e)

\* name_pattern.match(s): ^[A-Z][a-z]+ [A-Z][a-z]+$ ($ also matches before a
\* final newline); the space is s[i], the second token ends at e
is_full_name(s) ==
    \E i \in 3..(Len(s) - 2) :
        /\ s[1] \in Upper
        /\ AllIn(s, 2, i - 1, Lower)
        /\ s[i] = " "
        /\ s[i + 1] \in Upper
        /\ \E e \in (i + 2)..Len(s) :
              /\ AllIn(s, i + 2, e, Lower)
              /\ e = Len(s) \/ (e + 1 = Len(s) /\ s[Len(s)] = "\n")

\* has_address_components: a digit, a comma and \b\d{6}\b anywhere in the
\* value (str.lower() changes no digit, no comma and no word boundary)
has_address_components(s) ==
    LET has_numbers == \E i \in 1..Len(s) : s[i] \in Digit
        has_comma == \E i \in 1..Len(s) : s[i] = ","
        has_pin == \E i \in 1..(Len(s) - 5) :
                       /\ AllIn(s, i, i + 5, Digit)
                       /\ WordStart(s, i)
                       /\ WordEnd(s, i + 5)
    IN  has_numbers /\ has_comma /\ has_pin

\* ---------------------------------------------------------------- records

\* k in data
HasKey(data, k) == \E i \in 1..Len(data) : data[i][1] = k

\* data.get(k)
Get(data, k) ==
    IF HasKey(data, k)
    THEN data[CHOOSE i \in 1..Len(data) : data[i][1] = k][2]
    ELSE None

\* data[k] = v for a key of data: the key keeps its place
SetField(data, k, v) ==
    [i \in 1..Len(data) |-> IF data[i][1] = k THEN <<k, v>> ELSE data[i]]

\* list(data.keys())
KeysOf(data) == [i \in 1..Len(data) |-> data[i][1]]

\* set(a list)
SetOf(list) == {list[i] : i \in 1..Len(list)}

\* bool(v) of a str or None
Truthy(v) == v # None /\ v # <<>>

\* ------------------------------------------------- standalone classifier

\* one pass of the loop body for a non-null value: the if/elif chain that
\* appends k at most once
StandaloneStepIfChain(k, s, acc) ==
    LET a1 == IF k = "phone" \/ is_phone_number(s)
              THEN <<TRUE, Append(acc[2], k)>> ELSE acc
        a2 == IF k = "aadhar" \/ is_aadhar(s)
              THEN <<TRUE, Append(a1[2], k)>> ELSE a1
        a3 == IF k = "passport" \/ is_passport(s)
              THEN <<TRUE, Append(a2[2], k)>> ELSE a2
    IN  IF k = "upi_id" \/ is_upi_id(s)
        THEN <<TRUE, Append(a3[2], k)>> ELSE a3

StandaloneStep(k, s, acc) ==
    IF k = "phone" \/ is_phone_number(s) THEN <<TRUE, Append(acc[2], k)>>
    ELSE IF k = "aadhar" \/ is_aadhar(s) THEN <<TRUE, Append(acc[2], k)>>
    ELSE IF k = "passport" \/ is_passport(s) THEN <<TRUE, Append(acc[2], k)>>
    ELSE IF k = "upi_id" \/ is_upi_id(s) THEN <<TRUE, Append(acc[2], k)>>
    ELSE acc

RECURSIVE StandaloneLoop(_, _, _)
\* for k, val in data.items(), from the i-th item on; acc is <<pii_found, fields>>
StandaloneLoop(data, i, acc) ==
    IF i > Len(data) THEN acc
    ELSE IF data[i][2] = None THEN StandaloneLoop(data, i + 1, acc)
    ELSE StandaloneLoop(data, i + 1, StandaloneStep(data[i][1], data[i][2], acc))

\* returns <<pii_found, fields>>
detect_standalone_pii(data) == StandaloneLoop(data, 1, <<FALSE, <<>>>>)

\* ---------------------------------------------- combinatorial classifier

\* one pass of the loop body for a non-null value; acc holds the four flags
\* the loop sets and the fields list
CombinatorialStep(k, s, acc) ==
    IF k = "name" /\ is_full_name(s)
    THEN [acc EXCEPT !.has_full_name = TRUE, !.fields = Append(@, k)]
    ELSE IF k = "email" /\ is_email(s)
    THEN [acc EXCEPT !.has_email = TRUE, !.fields = Append(@, k)]
    ELSE IF k = "address" /\ has_address_components(s)
    THEN [acc EXCEPT !.has_address = TRUE, !.fields = Append(@, k)]
    ELSE IF k \in {"device_id", "ip_address"}
    THEN [acc EXCEPT !.has_device = TRUE, !.fields = Append(@, k)]
    ELSE acc

RECURSIVE CombinatorialLoop(_, _, _)
CombinatorialLoop(data, i, acc) ==
    IF i > Len(data) THEN acc
    ELSE IF data[i][2] = None THEN CombinatorialLoop(data, i + 1, acc)
    ELSE CombinatorialLoop(data, i + 1,
                           CombinatorialStep(data[i][1], data[i][2], acc))

\* True counts 1 in sum(elements)
BoolInt(b) == IF b THEN 1 ELSE 0

\* a threshold one too high
CombinatorialResultOffByOne(flags, fields) ==
    LET count == BoolInt(flags[1]) + BoolInt(flags[2]) + BoolInt(flags[3])
                 + BoolInt(flags[4]) + BoolInt(flags[5])
    IN  <<count > 2, fields, count>>

\* elements, count = sum(elements) and the returned tuple
CombinatorialResult(flags, fields) ==
    LET count == BoolInt(flags[1]) + BoolInt(flags[2]) + BoolInt(flags[3])
                 + BoolInt(flags[4]) + BoolInt(flags[5])
    IN  <<count >= 2, fields, count>>

\* returns <<count >= 2, fields, count>>
detect_combinatorial_pii(data) ==
    LET acc == CombinatorialLoop(data, 1,
                   [has_full_name |-> FALSE, has_email |-> FALSE,
                    has_address |-> FALSE, has_device |-> FALSE,
                    fields |-> <<>>])
        has_name_parts == Truthy(Get(data, "first_name"))
                          /\ Truthy(Get(data, "last_name"))
        fields == IF has_name_parts
                  THEN acc.fields \o <<"first_name", "last_name">>
                  ELSE acc.fields
    IN  CombinatorialResult(<<acc.has_full_name, acc.has_email, acc.has_address,
                              acc.has_device, has_name_parts>>, fields)

\* ---------------------------------------------------------- masking engine

\* line 114
MaskPhone(s) ==
    IF Len(s) >= 10
    THEN Prefix(s, 2) \o Xs(Len(s) - 4) \o Suffix(s, 2)
    ELSE Xs(Len(s))

\* line 116: the middle is always six X
MaskAadhar(s) ==
    IF Len(s) >= 12
    THEN Prefix(s, 3) \o Xs(6) \o Suffix(s, 3)
    ELSE Xs(Len(s))

\* line 118
MaskPassport(s) ==
    IF Len(s) >= 3
    THEN <<s[1]>> \o Xs(Len(s) - 2) \o <<s[Len(s)]>>
    ELSE Xs(Len(s))

\* mu of the upi_id and email branches
MaskLocalPart(u) ==
    IF Len(u) > 2
    THEN Prefix(u, 1) \o Xs(Len(u) - 2) \o Suffix(u, 1)
    ELSE Xs(Len(u))

\* the upi_id and the email branch: s.split('@') has two parts exactly when
\* s holds one '@'
MaskAtSplit(s) ==
    LET ats == {i \in 1..Len(s) : s[i] = "@"}
    IN  IF Cardinality(ats) = 1
        THEN LET p == CHOOSE i \in ats : TRUE
             IN  MaskLocalPart(SubSeq(s, 1, p - 1)) \o <<"@">>
                 \o SubSeq(s, p + 1, Len(s))
        ELSE Xs(Len(s))

RECURSIVE SplitWs(_, _, _)
\* s.split(): the maximal runs of non-whitespace of s, from position i on;
\* cur is the run being read
SplitWs(s, i, cur) ==
    IF i > Len(s) THEN (IF cur = <<>> THEN <<>> ELSE <<cur>>)
    ELSE IF s[i] \in Whitespace
    THEN (IF cur = <<>> THEN <<>> ELSE <<cur>>) \o SplitWs(s, i + 1, <<>>)
    ELSE SplitWs(s, i + 1, Append(cur, s[i]))

\* p[0] + 'X' * (len(p) - 1) if len(p) > 1 else 'X'
MaskToken(p) == IF Len(p) > 1 THEN <<p[1]>> \o Xs(Len(p) - 1) ELSE <<"X">>

RECURSIVE JoinSpace(_)
\* ' '.join(tokens)
JoinSpace(tokens) ==
    IF tokens = <<>> THEN <<>>
    ELSE IF Len(tokens) = 1 THEN tokens[1]
    ELSE tokens[1] \o <<" ">> \o JoinSpace(Tail(tokens))

\* line 134
MaskName(s) ==
    LET parts == SplitWs(s, 1, <<>>)
    IN  JoinSpace([i \in 1..Len(parts) |-> MaskToken(parts[i])])

\* line 136
MaskNamePart(s) == IF Len(s) > 1 THEN <<s[1]>> \o Xs(Len(s) - 1) ELSE <<"X">>

RedactedAddress == <<"[", "R", "E", "D", "A", "C", "T", "E", "D", "_", "A", "D", "D", "R", "E", "S", "S", "]">>

\* f"[REDACTED_{key.upper()}]"
RedactedKey(key) ==
    IF key = "device_id"
    THEN <<"[", "R", "E", "D", "A", "C", "T", "E", "D", "_", "D", "E", "V", "I", "C", "E", "_", "I", "D", "]">>
    ELSE <<"[", "R", "E", "D", "A", "C", "T", "E", "D", "_", "I", "P", "_", "A", "D", "D", "R", "E", "S", "S", "]">>

RedactedPii == <<"[", "R", "E", "D", "A", "C", "T", "E", "D", "_", "P", "I", "I", "]">>

\* the dispatch with the content of a value looked at before any field name
mask_value_content_first(key, value) ==
    IF value = None THEN None
    ELSE LET s == value
         IN  IF is_phone_number(s) THEN MaskPhone(s)
             ELSE IF is_aadhar(s) THEN MaskAadhar(s)
             ELSE IF is_passport(s) THEN MaskPassport(s)
             ELSE IF is_upi_id(s) THEN MaskAtSplit(s)
             ELSE IF is_email(s) THEN MaskAtSplit(s)
             ELSE IF key = "phone" THEN MaskPhone(s)
             ELSE IF key = "aadhar" THEN MaskAadhar(s)
             ELSE IF key = "passport" THEN MaskPassport(s)
             ELSE IF key = "upi_id" THEN MaskAtSplit(s)
             ELSE IF key = "email" THEN MaskAtSplit(s)
             ELSE IF key = "name" /\ is_full_name(s) THEN MaskName(s)
             ELSE IF key \in {"first_name", "last_name"} THEN MaskNamePart(s)
             ELSE IF key = "address" THEN RedactedAddress
             ELSE IF key \in {"device_id", "ip_address"} THEN RedactedKey(key)
             ELSE RedactedPii

\* mask_value for None and for a str value (str(value) is the value)
mask_value(key, value) ==
    IF value = None THEN None
    ELSE LET s == value
         IN  IF key = "phone" \/ is_phone_number(s) THEN MaskPhone(s)
             ELSE IF key = "aadhar" \/ is_aadhar(s) THEN MaskAadhar(s)
             ELSE IF key = "passport" \/ is_passport(s) THEN MaskPassport(s)
             ELSE IF key = "upi_id" \/ is_upi_id(s) THEN MaskAtSplit(s)
             ELSE IF key = "email" \/ is_email(s) THEN MaskAtSplit(s)
             ELSE IF key = "name" /\ is_full_name(s) THEN MaskName(s)
             ELSE IF key \in {"first_name", "last_name"} THEN MaskNamePart(s)
             ELSE IF key = "address" THEN RedactedAddress
             ELSE IF key \in {"device_id", "ip_address"} THEN RedactedKey(key)
             ELSE RedactedPii

\* ---------------------------------------------------------- process_record

RECURSIVE MaskFields(_, _)
\* for f in fields: if f in red: red[f] = self.mask_value(f, red[f])
MaskFields(red, fields) ==
    IF fields = <<>> THEN red
    ELSE LET f == Head(fields)
             next == IF HasKey(red, f)
                     THEN SetField(red, f, mask_value(f, Get(red, f)))
                     ELSE red
         IN  MaskFields(next, Tail(fields))

\* the combinatorial fields never masked
process_record_standalone_only(record) ==
    LET st == detect_standalone_pii(record)
        cb == detect_combinatorial_pii(record)
        is_pii_ == st[1] \/ cb[1]
    IN  <<is_pii_, IF is_pii_ THEN MaskFields(record, st[2]) ELSE record>>

\* every field of a PII record masked
process_record_mask_all(record) ==
    LET st == detect_standalone_pii(record)
        cb == detect_combinatorial_pii(record)
        is_pii_ == st[1] \/ cb[1]
    IN  <<is_pii_, IF is_pii_ THEN MaskFields(record, KeysOf(record)) ELSE record>>

\* the two masking loops outside the test of is_pii
process_record_unguarded(record) ==
    LET st == detect_standalone_pii(record)
        cb == detect_combinatorial_pii(record)
    IN  <<st[1] \/ cb[1], MaskFields(MaskFields(record, st[2]), cb[2])>>

\* returns <<is_pii, red>>
process_record(record) ==
    LET st == detect_standalone_pii(record)
        cb == detect_combinatorial_pii(record)
        is_pii_ == st[1] \/ cb[1]
        red1 == IF is_pii_ THEN MaskFields(record, st[2]) ELSE record
        red2 == IF is_pii_ /\ cb[1] THEN MaskFields(red1, cb[2]) ELSE red1
    IN  <<is_pii_, red2>>

\* ------------------------------------------------------------ the row loop

\* json.loads(raw_json): a cell is JSON text <<"json", layout, value>>, text
\* that is no JSON, or the float nan of an empty cell; the decoded value is
\* <<"object", record>> or <<"scalar", literal>>
json_loads(raw_json) ==
    IF raw_json[1] = "json" THEN raw_json[3] ELSE <<"raise">>

\* json.dumps(red_data): always the default layout
json_dumps(red_data) == <<"json", "default", <<"object", red_data>>>>

\* the try body of one row: <<"ok", output row>>, or <<"raise">> when
\* row['record_id'], json.loads or process_record raises
TryBody(row, has_id) ==
    IF ~has_id THEN <<"raise">>
    ELSE LET data == json_loads(row.raw_json)
         IN  IF data[1] # "object" THEN <<"raise">>
             ELSE LET res == process_record(data[2])
                  IN  <<"ok", [record_id |-> row.record_id,
                               redacted_data_json |-> json_dumps(res[2]),
                               is_pii |-> res[1]]>>

\* a handler that writes an empty object instead of the cell
ExceptBodyEmptyObject(row, i, has_id) ==
    [record_id |-> IF has_id THEN row.record_id ELSE <<"idx", i>>,
     redacted_data_json |-> <<"json", "default", <<"object", <<>>>>>>,
     is_pii |-> FALSE]

\* the except body of one row; i is idx
ExceptBody(row, i, has_id) ==
    [record_id |-> IF has_id THEN row.record_id ELSE <<"idx", i>>,
     redacted_data_json |-> row.raw_json,
     is_pii |-> FALSE]

\* ------------------------------------------------------------------ inputs

MaxFields == 3

MaxLen == 13

MaxRows == 3

KeyOrder == <<"phone", "aadhar", "passport", "upi_id", "email", "name",
              "address", "device_id", "ip_address", "first_name",
              "last_name", "city">>

PhoneStr == <<"9", "8", "7", "6", "5", "4", "3", "2", "1", "0">>

\* the values a field of an input record is drawn from
KeyValues(k) ==
    CASE k = "phone" -> {PhoneStr, <<"9", "8", "7", "6", "5">>, None}
      [] k = "aadhar" -> {<<"1", "2", "3", "4", "5", "6", "7", "8", "9", "0", "1", "2">>, PhoneStr, <<"1", "2", "3", "4", "5", "6", "7", "8", "9", "0", "1", "2", "3">>}
      [] k = "passport" -> {<<"P", "1", "2", "3", "4", "5", "6", "7">>, <<"A", "B">>}
      [] k = "upi_id" -> {<<"a", "b", "c", "@", "y", "b", "l">>, <<"a", "b", "c">>}
      [] k = "email" -> {<<"a", "b", "c", "@", "e", "x", ".", "c", "o">>, <<"a", "b", "c", "@", "y", "b", "l">>, None}
      [] k = "name" -> {<<"A", "l", " ", "B", "o">>, <<"a", "l">>}
      [] k = "address" -> {<<"1", ",", " ", "5", "6", "0", "0", "0", "1">>, <<"1", " ", "R", "d">>}
      [] k = "device_id" -> {PhoneStr, <<"d", "1">>}
      [] k = "ip_address" -> {<<"1", ".", "2", ".", "3", ".", "4">>, None}
      [] k = "first_name" -> {<<"A", "l">>, PhoneStr, <<>>}
      [] k = "last_name" -> {<<"B", "o">>, <<>>}
      [] k = "city" -> {<<"P", "u", "n", "e">>, <<"9", "8", "7", "6", "5", "4", "3", "2", "1", "0", " ", "x">>, <<"P", "1", "2", "3", "4", "5", "6", "7">>}

RECURSIVE AscRecords(_, _)
\* the records of at most n fields whose names follow KeyOrder after place lo
AscRecords(n, lo) ==
    IF n = 0 THEN {<<>>}
    ELSE {<<>>} \cup
         UNION { UNION { { <<<<KeyOrder[j], v>>>> \o r : r \in AscRecords(n - 1, j) }
                         : v \in KeyValues(KeyOrder[j]) }
                 : j \in (lo + 1)..Len(KeyOrder) }

Reverse(r) == [i \in 1..Len(r) |-> r[Len(r) - i + 1]]

\* the input records: at most MaxFields fields, in KeyOrder or against it
Records ==
    LET asc == AscRecords(MaxFields, 0)
    IN  asc \cup {Reverse(r) : r \in asc}

DigitCycle == <<"9", "8", "7", "6", "5", "4", "3", "2", "1", "0">>

\* the n-digit string 9876543210987...
Digits(n) == [i \in 1..n |-> DigitCycle[((i - 1) % 10) + 1]]

\* the values mask_value and the recognizers are applied to
MaskValues ==
    UNION {KeyValues(KeyOrder[j]) : j \in 1..Len(KeyOrder)}
    \cup {Digits(n) : n \in 0..MaxLen}
    \cup {Digits(n) \o <<" ", "x">> : n \in 0..MaxLen}
    \cup {<<"P">> \o Digits(n) : n \in 0..MaxLen}
    \cup {<<"a", "b", "c", "@", "e", "x", ".", "c", "o", ",", " ", "x">>, <<"a", "b", "c", "@", "y", "b", "l", ".", "c", "o", "m">>, <<"a", "@", "b", "@", "c">>, <<"A", "l", " ", "B", "o", "\n">>,
          <<"P", "1", "2", "3", "4", "5", "6", "7", "/", "a">>, <<"a", "b", "@", "p", "a", "y", "t", "m">>}

\* the cells of the JSON column
Payloads ==
    { <<"json", "default", <<"object", <<<<"phone", PhoneStr>>>>>>>>,
      <<"json", "compact", <<"object", <<<<"name", <<"A", "l", " ", "B", "o">>>>,
                                         <<"email", <<"a", "b", "c", "@", "e", "x", ".", "c", "o">>>>>>>>>>,
      <<"json", "compact", <<"object", <<<<"name", <<"A", "l", " ", "B", "o">>>>>>>>>>,
      <<"json", "default", <<"scalar", <<"7">>>>>>,
      <<"garbled", <<"{", "\"", "p", "h", "o", "n", "e", "\"", ":">>>>,
      <<"nan">> }

RECURSIVE RowLists(_)
\* the lists of n cells
RowLists(n) ==
    IF n = 0 THEN {<<>>}
    ELSE UNION { {Append(l, p) : p \in Payloads} : l \in RowLists(n - 1) }

\* the data frames: the cell of row i under its record_id <<"id", i>>
Frames ==
    UNION { { [i \in 1..n |-> [record_id |-> <<"id", i>>, raw_json |-> l[i]]]
              : l \in RowLists(n) } : n \in 0..MaxRows }

\* str(val)
Str(v) == IF v = None THEN <<"N", "o", "n", "e">> ELSE v

\* ------------------------------------------------------------------- state

VARIABLES
    record,     \* process_record: its argument
    pc,         \* "ready" before the call, "done" after it
    is_pii,     \* the flag it returns
    red,        \* the redacted record it returns
    stand,      \* what detect_standalone_pii returned to it
    combo,      \* what detect_combinatorial_pii returned to it
    key,        \* mask_value: its key argument
    value,      \* its value argument, also the recognizers' argument
    mpc,        \* "ready", "recognized" (the recognizers ran), "masked"
    matched,    \* the kinds whose recognizer returned True on str(value)
    masked,     \* what mask_value returned
    rows,       \* main: the rows of the data frame
    has_id,     \* whether the frame has a record_id column
    idx,        \* the number of rows the loop has handled
    out         \* the output rows

recordVars == <<record, pc, is_pii, red, stand, combo>>

maskVars == <<key, value, mpc, matched, masked>>

mainVars == <<rows, has_id, idx, out>>

vars == <<record, pc, is_pii, red, stand, combo, key, value, mpc, matched,
          masked, rows, has_id, idx, out>>

\* no call of process_record under way
RecordIdle ==
    /\ record = <<>>
    /\ pc = "idle"
    /\ is_pii = FALSE
    /\ red = <<>>
    /\ stand = <<FALSE, <<>>>>
    /\ combo = <<FALSE, <<>>, 0>>

MaskIdle ==
    /\ key = "city"
    /\ value = None
    /\ mpc = "idle"
    /\ matched = {}
    /\ masked = None

MainIdle ==
    /\ rows = <<>>
    /\ has_id = TRUE
    /\ idx = 0
    /\ out = <<>>

\* ------------------------------------------------ process_record on a record

Init ==
    /\ record \in Records
    /\ pc = "ready"
    /\ is_pii = FALSE
    /\ red = <<>>
    /\ stand = <<FALSE, <<>>>>
    /\ combo = <<FALSE, <<>>, 0>>
    /\ MaskIdle
    /\ MainIdle

ProcessRecord ==
    /\ pc = "ready"
    /\ stand' = detect_standalone_pii(record)
    /\ combo' = detect_combinatorial_pii(record)
    /\ is_pii' = process_record(record)[1]
    /\ red' = process_record(record)[2]
    /\ pc' = "done"
    /\ UNCHANGED <<record, maskVars, mainVars>>

Next == ProcessRecord

Spec == Init /\ [][Next]_vars

\* ------------------------------------- the recognizers and mask_value alone

MaskInit ==
    /\ key \in SetOf(KeyOrder)
    /\ value \in MaskValues
    /\ mpc = "ready"
    /\ matched = {}
    /\ masked = None
    /\ RecordIdle
    /\ MainIdle

Recognize ==
    /\ mpc = "ready"
    /\ matched' =
         LET s == Str(value)
         IN  {k \in {"phone"} : is_phone_number(s)}
             \cup {k \in {"aadhar"} : is_aadhar(s)}
             \cup {k \in {"passport"} : is_passport(s)}
             \cup {k \in {"upi_id"} : is_upi_id(s)}
             \cup {k \in {"email"} : is_email(s)}
             \cup {k \in {"full_name"} : is_full_name(s)}
             \cup {k \in {"address"} : has_address_components(s)}
    /\ mpc' = "recognized"
    /\ UNCHANGED <<key, value, masked, recordVars, mainVars>>

MaskValue ==
    /\ mpc = "recognized"
    /\ masked' = mask_value(key, value)
    /\ mpc' = "masked"
    /\ UNCHANGED <<key, value, matched, recordVars, mainVars>>

MaskNext == Recognize \/ MaskValue

SpecMask == MaskInit /\ [][MaskNext]_vars

\* ------------------------------------------------------ the row loop of main

MainInit ==
    /\ rows \in Frames
    /\ has_id \in BOOLEAN
    /\ idx = 0
    /\ out = <<>>
    /\ RecordIdle
    /\ MaskIdle

\* one pass of the loop whose try body completes
RowProcessed ==
    /\ idx < Len(rows)
    /\ LET r == TryBody(rows[idx + 1], has_id)
       IN  /\ r[1] = "ok"
           /\ out' = Append(out, r[2])
    /\ idx' = idx + 1
    /\ UNCHANGED <<rows, has_id, recordVars, maskVars>>

\* one pass of the loop whose try body raises: the except body
RowFailed ==
    /\ idx < Len(rows)
    /\ TryBody(rows[idx + 1], has_id)[1] = "raise"
    /\ out' = Append(out, ExceptBody(rows[idx + 1], idx, has_id))
    /\ idx' = idx + 1
    /\ UNCHANGED <<rows, has_id, recordVars, maskVars>>

MainNext == RowProcessed \/ RowFailed

SpecMain == MainInit /\ [][MainNext]_vars

\* ------------------------------------------------------------------ claims

\* the fields the standalone classifier flagged
StandFields == SetOf(stand[2])

\* the fields the combinatorial classifier reports as contributing
ComboFields == SetOf(combo[2])

\* mask_value on the raw value of field f of the record
MaskedOnce(f) == mask_value(f, Get(record, f))

\* mask_value on its own output for field f
MaskedTwice(f) == mask_value(f, MaskedOnce(f))

\* C1 as stated: when is_pii is true, every field the standalone classifier
\* flagged or the combinatorial classifier reports as contributing holds an
\* output of the masking engine in the redacted record, whatever made the
\* record PII.
C1_UnionMasked ==
    (pc = "done" /\ is_pii) =>
        \A f \in StandFields \cup ComboFields :
            Get(red, f) \in {MaskedOnce(f), MaskedTwice(f)}

\* C1 amended: when is_pii is true, every standalone-flagged field, and every
\* contributing field when is_combinatorial_pii itself is true, holds an
\* output of the masking engine in the redacted record; while
\* is_combinatorial_pii is false the contributing fields the standalone
\* classifier did not flag keep their values.
C1_TriggeredMasked ==
    (pc = "done" /\ is_pii) =>
        /\ \A f \in StandFields \cup (IF combo[1] THEN ComboFields ELSE {}) :
              Get(red, f) \in {MaskedOnce(f), MaskedTwice(f)}
        /\ ~combo[1] =>
              \A f \in ComboFields \ StandFields : Get(red, f) = Get(record, f)

\* a record flagged by the standalone classifier alone while one signal is
\* true: the flagged field is masked, the signal's field is not
C1_Witness ==
    /\ pc = "done"
    /\ is_pii
    /\ stand[1]
    /\ ~combo[1]
    /\ \E f \in StandFields : Get(red, f) # Get(record, f)
    /\ \E f \in ComboFields \ StandFields : Get(red, f) = Get(record, f)

\* C2: every field process_record masks holds mask_value of its raw value,
\* computed once.
C2_MaskedOnce ==
    (pc = "done" /\ is_pii) =>
        \A f \in StandFields \cup (IF combo[1] THEN ComboFields ELSE {}) :
            Get(red, f) = MaskedOnce(f)

\* C3: the redacted record has the keys of the record, in their order, and a
\* value differs only for a field of the union of the two field lists.
C3_FrameOfUnion ==
    pc = "done" =>
        /\ KeysOf(red) = KeysOf(record)
        /\ \A i \in 1..Len(record) :
              red[i][2] # record[i][2] =>
                  record[i][1] \in StandFields \cup ComboFields

\* a PII record with a masked field and an untouched field outside the union
C3_Witness ==
    /\ pc = "done"
    /\ is_pii
    /\ \E i \in 1..Len(record) : red[i][2] # record[i][2]
    /\ \E i \in 1..Len(record) :
          /\ record[i][1] \notin StandFields \cup ComboFields
          /\ record[i][2] # None
          /\ red[i] = record[i]

\* C4: when is_pii is false the redacted record is the record.
C4_NonPiiUnchanged == (pc = "done" /\ ~is_pii) => red = record

\* a non-PII record whose one true signal is device_id together with
\* ip_address
C4_Witness ==
    /\ pc = "done"
    /\ ~is_pii
    /\ {"device_id", "ip_address"} \subseteq ComboFields
    /\ red = record

\* the true signals of the record, each stated on the record itself
TrueSignals ==
    {sig \in {"full_name", "email", "address", "device", "name_parts"} :
        CASE sig = "full_name" ->
                 Get(record, "name") # None /\ is_full_name(Get(record, "name"))
          [] sig = "email" ->
                 Get(record, "email") # None /\ is_email(Get(record, "email"))
          [] sig = "address" ->
                 /\ Get(record, "address") # None
                 /\ has_address_components(Get(record, "address"))
          [] sig = "device" ->
                 Get(record, "device_id") # None \/ Get(record, "ip_address") # None
          [] sig = "name_parts" ->
                 /\ Get(record, "first_name") \notin {None, <<>>}
                 /\ Get(record, "last_name") \notin {None, <<>>}}

\* C5: the count is the number of true signals among the five, lies in 0..5,
\* and is_combinatorial_pii is true exactly when the count is at least 2.
C5_CountAndThreshold ==
    pc = "done" =>
        /\ combo[3] = Cardinality(TrueSignals)
        /\ combo[3] \in 0..5
        /\ combo[1] <=> (combo[3] >= 2)

\* device_id and ip_address both present, one signal, not combinatorial PII
C5_Witness ==
    /\ pc = "done"
    /\ Get(record, "device_id") # None
    /\ Get(record, "ip_address") # None
    /\ combo[3] = 1
    /\ ~combo[1]

\* the whole of s is 10 digits, the first in 6..9
ExactPhone(s) == Len(s) = 10 /\ s[1] \in {"6", "7", "8", "9"} /\ AllIn(s, 1, 10, Digit)

\* the whole of s is 12 digits
ExactAadhar(s) == Len(s) = 12 /\ AllIn(s, 1, 12, Digit)

\* the whole of s is an uppercase letter and 7 digits
ExactPassport(s) == Len(s) = 8 /\ s[1] \in Upper /\ AllIn(s, 2, 8, Digit)

\* the whole of s is local@handle, the handle one of the enumerated ones
ExactUpi(s) ==
    \E n \in 1..(Len(s) - 1) :
        /\ AllIn(s, 1, n, Word)
        /\ s[n + 1] = "@"
        /\ SubSeq(s, n + 2, Len(s)) \in UpiHandles

\* the whole of s is local@domain.ext
ExactEmail(s) ==
    \E n \in 1..(Len(s) - 1) :
        /\ AllIn(s, 1, n, EmailLocal)
        /\ s[n + 1] = "@"
        /\ \E d \in (n + 2)..(Len(s) - 3) :
              /\ AllIn(s, n + 2, d, EmailDomain)
              /\ s[d + 1] = "."
              /\ AllIn(s, d + 2, Len(s), Alpha)

\* C6: a recognizer other than the address check returns True only on a value
\* that has the kind's shape as a whole.
C6_WholeValue ==
    mpc \in {"recognized", "masked"} =>
        LET s == Str(value)
        IN  /\ "phone" \in matched => ExactPhone(s)
            /\ "aadhar" \in matched => ExactAadhar(s)
            /\ "passport" \in matched => ExactPassport(s)
            /\ "upi_id" \in matched => ExactUpi(s)
            /\ "email" \in matched => ExactEmail(s)

\* the kinds mask_value dispatches on by name, in its order
KindOrder == <<"phone", "aadhar", "passport", "upi_id", "email">>

\* the masking format of kind k on s
FormatOf(k, s) ==
    CASE k = "phone" -> MaskPhone(s)
      [] k = "aadhar" -> MaskAadhar(s)
      [] k = "passport" -> MaskPassport(s)
      [] k = "upi_id" -> MaskAtSplit(s)
      [] k = "email" -> MaskAtSplit(s)

\* the recognizer of kind k on s
Recognizes(k, s) ==
    CASE k = "phone" -> is_phone_number(s)
      [] k = "aadhar" -> is_aadhar(s)
      [] k = "passport" -> is_passport(s)
      [] k = "upi_id" -> is_upi_id(s)
      [] k = "email" -> is_email(s)

\* the place of kind k in KindOrder
KindPlace(k) == CHOOSE i \in 1..Len(KindOrder) : KindOrder[i] = k

\* C7 as stated: a non-null value of a field named after one of the five
\* kinds is masked with the format of that kind, whatever the value matches.
C7_NameFirst ==
    (mpc = "masked" /\ key \in SetOf(KindOrder) /\ value # None) =>
        masked = FormatOf(key, value)

\* C7 amended: a non-null value of a field named after one of the five kinds
\* is masked with the format of that kind unless the value matches the
\* recognizer of a kind earlier in the order phone, aadhar, passport, upi_id,
\* email; then it is masked with the format of the earliest such kind.
C7_FirstRuleInOrder ==
    (mpc = "masked" /\ key \in SetOf(KindOrder) /\ value # None) =>
        LET earlier == {i \in 1..(KindPlace(key) - 1) : Recognizes(KindOrder[i], value)}
        IN  IF earlier = {}
            THEN masked = FormatOf(key, value)
            ELSE masked = FormatOf(KindOrder[CHOOSE i \in earlier :
                                                 \A j \in earlier : i <= j], value)

\* a field named phone holding an aadhar-shaped value, masked as a phone
C7_Witness ==
    /\ mpc = "masked"
    /\ key = "phone"
    /\ is_aadhar(value)
    /\ masked = MaskPhone(value)
    /\ masked # MaskAadhar(value)

\* the phone, aadhar or passport rule mask_value applies to (k, s), or "other"
AppliedRule(k, s) ==
    IF k = "phone" \/ is_phone_number(s) THEN "phone"
    ELSE IF k = "aadhar" \/ is_aadhar(s) THEN "aadhar"
    ELSE IF k = "passport" \/ is_passport(s) THEN "passport"
    ELSE "other"

\* m keeps the first and last keep characters of s and has X everywhere
\* between them, or is all X when s is shorter than least
KeepsEnds(m, s, keep, least) ==
    /\ Len(m) = Len(s)
    /\ IF Len(s) >= least
       THEN \A i \in 1..Len(s) :
                m[i] = IF i <= keep \/ i > Len(s) - keep THEN s[i] ELSE "X"
       ELSE \A i \in 1..Len(s) : m[i] = "X"

\* C8: the phone, aadhar and passport rules keep 2+2, 3+3 and 1+1 characters,
\* put X for every character between, keep the length, and put X for every
\* character of a value shorter than 10, 12 and 3.
C8_LengthAndEnds ==
    (mpc = "masked" /\ value # None) =>
        LET rule == AppliedRule(key, value)
        IN  /\ rule = "phone" => KeepsEnds(masked, value, 2, 10)
            /\ rule = "aadhar" => KeepsEnds(masked, value, 3, 12)
            /\ rule = "passport" => KeepsEnds(masked, value, 1, 3)

\* the kinds a field may be flagged for by its name
StandaloneNames == {"phone", "aadhar", "passport", "upi_id"}

\* C9: the flagged fields are exactly the fields with a non-null value whose
\* name is a standalone name or whose value matches one of the four
\* recognizers; no name is listed twice; the flag is true exactly when the
\* list is not empty.
C9_FlaggedExactlyOnce ==
    pc = "done" =>
        /\ StandFields =
              {k \in SetOf(KeysOf(record)) :
                  /\ Get(record, k) # None
                  /\ \/ k \in StandaloneNames
                     \/ \E kind \in StandaloneNames : Recognizes(kind, Get(record, k))}
        /\ Cardinality(StandFields) = Len(stand[2])
        /\ stand[1] <=> (stand[2] # <<>>)

\* a field named aadhar holding a phone-shaped value, and a field flagged for
\* its value alone
C9_Witness ==
    /\ pc = "done"
    /\ is_phone_number(Get(record, "aadhar"))
    /\ "aadhar" \in StandFields
    /\ \E k \in StandFields \ StandaloneNames : TRUE

\* the try body of row i completes
RowSucceeds(i) ==
    /\ has_id
    /\ rows[i].raw_json[1] = "json"
    /\ rows[i].raw_json[3][1] = "object"

\* C10: one output row per handled row, in the order of the rows; a row whose
\* decoding or processing fails gets is_pii false and its own cell, every
\* other row gets what process_record returned for it; the loop goes on to
\* the next row after either.
C10_RowByRow ==
    /\ Len(out) = idx
    /\ idx <= Len(rows)
    /\ idx < Len(rows) => TryBody(rows[idx + 1], has_id)[1] \in {"ok", "raise"}
    /\ \A i \in 1..idx :
          /\ out[i].record_id = (IF has_id THEN rows[i].record_id ELSE <<"idx", i - 1>>)
          /\ IF RowSucceeds(i)
             THEN LET res == process_record(rows[i].raw_json[3][2])
                  IN  /\ out[i].is_pii = res[1]
                      /\ out[i].redacted_data_json = json_dumps(res[2])
             ELSE /\ out[i].is_pii = FALSE
                  /\ out[i].redacted_data_json = rows[i].raw_json

\* the loop has ended after a row that failed to decode, followed by a row
\* that is PII
C10_Witness ==
    /\ idx = Len(rows)
    /\ \E i \in 1..idx, j \in 1..idx :
          /\ i < j
          /\ ~RowSucceeds(i)
          /\ RowSucceeds(j)
          /\ out[j].is_pii
          /\ out[i].redacted_data_json = rows[i].raw_json

=============================================================================
